---- MODULE Spec2Model ----
(***************************************************************************)
(* Fleet optimizer: the table and fleet generator (src/lib/fleetData.js),  *)
(* the recommendation engine and the display formatters, and the page      *)
(* that drives them (src/unnamed/part_000).                                *)
(*                                                                         *)
(* Units.  Money is an integer number of currency units where the code     *)
(* rounds it, and an exact fraction (numerator over a fixed denominator)   *)
(* before rounding.  utilizationFactor is carried as the integer k with    *)
(* utilizationFactor = k / 100.  wasteScore is carried in hundredths       *)
(* (wasteScore = 0.70 is 70).                                              *)
(*                                                                         *)
(* Floating point.  The code computes in IEEE-754 doubles.  Every value    *)
(* it rounds is a fraction with a small denominator, so the double and     *)
(* the exact value fall on the same side of every rounding threshold       *)
(* except when the exact value lies ON the threshold (an exact half        *)
(* before Math.round, an exact integer before Math.floor).  There the      *)
(* double may land just below the threshold: (165*0.00013 +                *)
(* 967*0.00065)*730 is 474.49999999999994 and 100 * 0.29 is                *)
(* 28.999999999999996.  Which side it lands on is a function of the       *)
(* operands that integers do not express.  For Math.floor of a capacity    *)
(* times a utilization factor the operands that land below are tabulated   *)
(* (LowCapacities); an operator that rounds a spend takes the side as an   *)
(* argument, the flag ulp (TRUE: on or above the threshold, FALSE: below   *)
(* it) or the set low of the places, in that call, whose double lands      *)
(* below.                                                                  *)
(***************************************************************************)
EXTENDS Integers, Sequences, FiniteSets, TLC

\* Math.random() returns x / RandomResolution for an integer x in
\* 0 .. RandomResolution - 1, so it is in [0, 1).
RandomResolution == 32768

RandomValues == 0 .. (RandomResolution - 1)

Min(a, b) == IF a < b THEN a ELSE b

\* Math.round of the non-negative fraction n / d.
MathRound(n, d, ulp) ==
    LET q == n \div d
        r == n % d
    IN  IF 2 * r < d THEN q
        ELSE IF 2 * r > d THEN q + 1
        ELSE IF ulp THEN q + 1 ELSE q

\* Math.round of (a * f) / d + c where a * f does not fit a machine word:
\* a = qa * d + ra, so (a * f) / d = qa * f + (ra * f) / d.
MathRoundProduct(a, f, d, c, ulp) ==
    LET qa == a \div d
        ra == a % d
    IN  qa * f + c + MathRound(ra * f, d, ulp)

\* The utilization factors k / 100 whose double lies below k / 100 and whose
\* product with some capacity p, exactly an integer, is a double below it.
LowFactors == {29, 35, 41, 47, 57, 58, 69, 70, 82, 94}

\* For a factor of LowFactors, the ranges of capacities (of 50 .. 10000) whose
\* product with the factor, when exactly an integer, is a double below it:
\* 100 * 0.29 is 28.999999999999996, while 300 * 0.29 is 87.
LowCapacities(k) ==
    CASE k = 29 -> {<<100, 200>>, <<400, 400>>, <<800, 800>>, <<1500, 1700>>,
                    <<2900, 3500>>, <<5700, 7000>>}
      [] k = 35 -> {<<180, 180>>, <<340, 360>>, <<660, 720>>, <<1300, 1460>>,
                    <<2580, 2920>>, <<5140, 5840>>}
      [] k = 41 -> {<<300, 300>>, <<600, 600>>, <<1200, 1200>>, <<2400, 2400>>,
                    <<4700, 4900>>, <<9400, 9900>>}
      [] k = 47 -> {<<4300, 4300>>, <<8600, 8700>>}
      [] k = 57 -> {<<100, 400>>, <<600, 800>>, <<1200, 1700>>, <<2400, 3500>>,
                    <<4700, 7100>>, <<9400, 10000>>}
      [] k = 58 -> {<<50, 100>>, <<200, 200>>, <<400, 400>>, <<750, 850>>,
                    <<1450, 1750>>, <<2850, 3500>>, <<5700, 7050>>}
      [] k = 69 -> {<<300, 300>>, <<600, 700>>, <<1100, 1400>>, <<2200, 2900>>,
                    <<4300, 5900>>, <<8600, 10000>>}
      [] k = 70 -> {<<90, 90>>, <<170, 180>>, <<330, 360>>, <<650, 730>>,
                    <<1290, 1460>>, <<2570, 2920>>, <<5130, 5850>>}
      [] k = 82 -> {<<150, 150>>, <<300, 300>>, <<600, 600>>, <<1200, 1200>>,
                    <<2350, 2450>>, <<4700, 4950>>, <<9350, 9950>>}
      [] k = 94 -> {<<2150, 2150>>, <<4300, 4350>>, <<8550, 8700>>}
      [] OTHER -> {}

\* The double p * (k / 100) lies below the integer p * k / 100.
LowProduct(p, k) ==
    /\ (p * k) % 100 = 0
    /\ \E r \in LowCapacities(k) : r[1] <= p /\ p <= r[2]

\* Math.round in the place of Math.floor.
MathRoundFactor(p, k) == (p * k + 50) \div 100

\* Math.floor(p * (k / 100)).
MathFloorFactor(p, k) ==
    LET exact == (p * k) \div 100
    IN  IF LowProduct(p, k) THEN exact - 1 ELSE exact

\* Math.random() > t / 10, for the draw x.
RandomAbove(x, t) == 10 * x > t * RandomResolution

(***************************************************************************)
(* src/lib/fleetData.js                                                    *)
(***************************************************************************)
TABLE_PREFIXES ==
    [ecommerce |-> <<"orders", "products", "users", "carts", "inventory", "reviews",
                     "payments", "shipments", "promotions", "sessions", "wishlists",
                     "returns">>,
     gaming |-> <<"players", "sessions", "leaderboards", "achievements", "inventory",
                  "matches", "guilds", "chat", "events", "purchases", "stats">>,
     financial |-> <<"accounts", "transactions", "audit", "compliance", "customers",
                     "loans", "cards", "alerts", "reports", "kyc", "fraud",
                     "statements">>]

ENVIRONMENTS == <<"prod", "staging", "dev", "test">>

REGIONS == <<"us-east-1", "us-west-2", "eu-west-1">>

UNUSED_GSI_NAMES ==
    <<"gsi-legacy-idx", "gsi-migration-temp", "gsi-old-format", "gsi-deprecated",
      "gsi-test-idx", "gsi-backup-idx", "gsi-unused-sort", "gsi-archive-idx">>

\* JavaScript null in a field that otherwise holds a positive integer.
Null == -1

\* Math.floor(Math.random() * (max - min + 1)) + min, for the draw x.
randomBetween(min, max, x) == (x * (max - min + 1)) \div RandomResolution + min

\* The draws one call of generateTable takes from Math.random(), one field
\* per call site, are the record d.  The places where generateTable rounds:
RoundingPlaces == {"monthlySpend", "savingsPotential"}

\* utilizationFactor with the upper e-commerce band reaching 110 per cent.
utilizationFactorLoose(profileType, d) ==
    CASE profileType = "ecommerce" ->
           IF RandomAbove(d.band, 7) THEN randomBetween(5, 30, d.util)
                                     ELSE randomBetween(40, 110, d.util)
      [] profileType = "gaming" ->
           IF RandomAbove(d.band, 5) THEN randomBetween(70, 95, d.util)
                                     ELSE randomBetween(10, 40, d.util)
      [] profileType = "financial" -> randomBetween(15, 50, d.util)
      [] OTHER -> randomBetween(20, 80, d.util)

\* utilizationFactor * 100.
utilizationFactor(profileType, d) ==
    CASE profileType = "ecommerce" ->
           IF RandomAbove(d.band, 7) THEN randomBetween(5, 30, d.util)
                                     ELSE randomBetween(40, 90, d.util)
      [] profileType = "gaming" ->
           IF RandomAbove(d.band, 5) THEN randomBetween(70, 95, d.util)
                                     ELSE randomBetween(10, 40, d.util)
      [] profileType = "financial" -> randomBetween(15, 50, d.util)
      [] OTHER -> randomBetween(20, 80, d.util)

\* provisionedRCU and provisionedWCU as drawn, in either capacity mode.
provisionedRCUOf(d) ==
    IF RandomAbove(d.high, 6) THEN randomBetween(2000, 10000, d.rcu)
                              ELSE randomBetween(100, 2000, d.rcu)

provisionedWCUOf(d) ==
    IF RandomAbove(d.high, 6) THEN randomBetween(500, 3000, d.wcu)
                              ELSE randomBetween(50, 500, d.wcu)

\* monthlySpendUnrounded with the on-demand price taken per hour, without the
\* 3600 seconds.
monthlySpendPerHour(isProvisioned, provisioned, consumed) ==
    IF isProvisioned
    THEN 949 * provisioned.RCU + 4745 * provisioned.WCU
    ELSE (6570 * consumed.RCU + 32850 * consumed.WCU) \div 3600

\* monthlySpend * 10000 before Math.round, exactly:
\*   (RCU * 0.00013 + WCU * 0.00065) * 730       = (949 RCU + 4745 WCU) / 10000
\*   RCU * 0.25 / 1e6 * 3600 * 730 + WCU * 1.25 / 1e6 * 3600 * 730
\*                                               = (6570 RCU + 32850 WCU) / 10000
monthlySpendUnrounded(isProvisioned, provisioned, consumed) ==
    IF isProvisioned
    THEN 949 * provisioned.RCU + 4745 * provisioned.WCU
    ELSE 6570 * consumed.RCU + 32850 * consumed.WCU

\* wasteScore with the 0.2 of a SPIKY table in either capacity mode.
wasteScoreAnySpiky(capacityWaste, numUnused, trafficPattern, isProvisioned) ==
    MathRound(Min(1000, capacityWaste * 6 + 150 * numUnused
                        + (IF trafficPattern = "SPIKY" THEN 200 ELSE 0)), 10, TRUE)

\* Math.round(wasteScore * 100), for capacityWaste * 100: the sum before
\* Math.min is a whole number of thousandths with an even last digit, never
\* half a hundredth.
wasteScore(capacityWaste, numUnused, trafficPattern, isProvisioned) ==
    LET modeWaste == IF isProvisioned /\ trafficPattern = "SPIKY" THEN 200 ELSE 0
    IN  MathRound(Min(1000, capacityWaste * 6 + 150 * numUnused + modeWaste), 10, TRUE)

generateTable(prefix, env, index, profileType, d, low) ==
    LET isProvisioned == RandomAbove(d.prov, 3)
        provisionedRCU == provisionedRCUOf(d)
        provisionedWCU == provisionedWCUOf(d)
        k == utilizationFactor(profileType, d)
        consumedRCU == MathFloorFactor(provisionedRCU, k)
        consumedWCU == MathFloorFactor(provisionedWCU, k)
        totalGSIs == randomBetween(0, 5, d.gsi)
        numUnused == IF totalGSIs > 0 /\ RandomAbove(d.coin, 5)
                      THEN randomBetween(1, Min(3, totalGSIs), d.num)
                      ELSE 0
        nameDraws == <<d.name1, d.name2, d.name3>>
        unusedGSIs == [i \in 1 .. numUnused |->
                          UNUSED_GSI_NAMES[randomBetween(0, Len(UNUSED_GSI_NAMES) - 1,
                                                         nameDraws[i]) + 1]]
        trafficPattern == <<"STEADY", "SPIKY", "BURSTY">>[randomBetween(0, 2, d.pattern) + 1]
        spendNum == monthlySpendUnrounded(isProvisioned,
                                          [RCU |-> provisionedRCU, WCU |-> provisionedWCU],
                                          [RCU |-> consumedRCU, WCU |-> consumedWCU])
        \* capacityWaste * 100
        capacityWaste == IF isProvisioned THEN 100 - k ELSE 0
        spiky == isProvisioned /\ trafficPattern = "SPIKY"
        \* savingsPotential = monthlySpend * (0.4 [spiky] + capacityWaste * 0.5
        \* [capacityWaste > 0.5]) + 50 * unused; the factor, times 200:
        savingsFactor == (IF spiky THEN 80 ELSE 0)
                         + (IF capacityWaste > 50 THEN capacityWaste ELSE 0)
    IN  [id |-> index,
         tableName |-> [prefix |-> prefix, env |-> env, index |-> index],
         region |-> REGIONS[randomBetween(0, Len(REGIONS) - 1, d.region) + 1],
         environment |-> env,
         capacityMode |-> IF isProvisioned THEN "PROVISIONED" ELSE "ON_DEMAND",
         provisionedRCU |-> IF isProvisioned THEN provisionedRCU ELSE Null,
         provisionedWCU |-> IF isProvisioned THEN provisionedWCU ELSE Null,
         consumedRCU |-> consumedRCU,
         consumedWCU |-> consumedWCU,
         utilizationPercent |-> k,
         gsiCount |-> totalGSIs,
         unusedGSIs |-> unusedGSIs,
         trafficPattern |-> trafficPattern,
         monthlySpend |-> MathRound(spendNum, 10000, "monthlySpend" \notin low),
         wasteScore |-> wasteScore(capacityWaste, numUnused, trafficPattern, isProvisioned),
         savingsPotential |-> MathRoundProduct(spendNum, savingsFactor, 2000000,
                                               50 * numUnused,
                                               "savingsPotential" \notin low)]

\* The stream of Math.random(): the full-period linear congruential generator
\*     x' = (StreamA * x + StreamC) % RandomResolution
\* over RandomValues.  A run of the stream is fixed by the value it starts at, and
\* its n-th value is  StreamA^n * start + StreamC * (1 + StreamA + ... + StreamA^(n-1)).
StreamA == 25173

StreamC == 13849

RECURSIVE StreamPower(_)
StreamPower(n) ==
    IF n = 0 THEN 1
    ELSE LET h == StreamPower(n \div 2)
             sq == (h * h) % RandomResolution
         IN  IF n % 2 = 0 THEN sq ELSE (sq * StreamA) % RandomResolution

RECURSIVE StreamSeries(_)
StreamSeries(n) ==
    IF n = 0 THEN 0
    ELSE IF n % 2 = 1 THEN (1 + StreamA * StreamSeries(n - 1)) % RandomResolution
    ELSE (StreamSeries(n \div 2) * (1 + StreamPower(n \div 2))) % RandomResolution

MathRandom(start, n) ==
    (StreamPower(n) * start + StreamC * StreamSeries(n)) % RandomResolution

\* Iteration i (from 0) of the loop of generateFleetData takes DrawsPerTable
\* values of the stream: the environment draw, the draws of generateTable, and
\* one value whose bits say which doubles of that table land below.
DrawsPerTable == 16

RoundingPlacesSeq == <<"monthlySpend", "savingsPotential">>

\* A run of Math.random() over one call of generateFleetData: the congruential
\* stream from start on, or the stream that hands every iteration of the loop
\* the same draws d (repeat = <<d>>).
CongruentialStream(start) == [start |-> start, repeat |-> <<>>]

RepeatingStream(d) == [start |-> 0, repeat |-> <<d>>]

TableDraws(stream, i) ==
    LET x == [j \in 1 .. DrawsPerTable |->
                 MathRandom(stream.start, DrawsPerTable * i + j - 1)]
    IN  IF stream.repeat # <<>> THEN stream.repeat[1] ELSE
        [env |-> x[1], prov |-> x[2], high |-> x[3], rcu |-> x[4], wcu |-> x[5],
         band |-> x[6], util |-> x[7], gsi |-> x[8], coin |-> x[9], num |-> x[10],
         name1 |-> x[11], name2 |-> x[12], name3 |-> x[13], pattern |-> x[14],
         region |-> x[15],
         low |-> {RoundingPlacesSeq[b] : b \in {c \in 1 .. 2 : (x[16] \div (8192 * c)) % 2 = 1}}]

\* Array.prototype.sort with a consistent comparator: a stable sort.
\* cmp[j, i] is what the comparator returns for (arr[j], arr[i]): negative when
\* arr[j] goes first, positive when arr[i] goes first, 0 when they tie.
ArraySort(arr, cmp) ==
    LET n == Len(arr)
        before(j, i) == \/ cmp[j, i] < 0
                        \/ cmp[j, i] = 0 /\ j < i
        rank == [i \in 1 .. n |-> Cardinality({j \in 1 .. n : j # i /\ before(j, i)}) + 1]
    IN  [r \in 1 .. n |-> arr[CHOOSE i \in 1 .. n : rank[i] = r]]

ByWasteScoreDescending(a, b) == b.wasteScore - a.wasteScore

prefixesOf(profileType) ==
    IF profileType \in DOMAIN TABLE_PREFIXES THEN TABLE_PREFIXES[profileType]
                                            ELSE TABLE_PREFIXES.ecommerce

\* tableCount with one table fewer for the financial profile.
tableCountShort(profileType) ==
    CASE profileType = "ecommerce" -> 70
      [] profileType = "gaming" -> 45
      [] profileType = "financial" -> 89
      [] OTHER -> 50

tableCount(profileType) ==
    CASE profileType = "ecommerce" -> 70
      [] profileType = "gaming" -> 45
      [] profileType = "financial" -> 90
      [] OTHER -> 50

\* Iteration i (from 0) of the for loop: the table it pushes.
pushedTable(profileType, i, stream) ==
    LET prefixes == prefixesOf(profileType)
        d == TableDraws(stream, i)
        prefix == prefixes[(i % Len(prefixes)) + 1]
        env == IF 10 * i < 6 * tableCount(profileType)
                THEN "prod"
                ELSE ENVIRONMENTS[randomBetween(0, Len(ENVIRONMENTS) - 1, d.env) + 1]
    IN  generateTable(prefix, env, i + 1, profileType, d, d.low)

\* The array the loop has filled, before tables.sort.
generateFleetDataUnsorted(profileType, stream) ==
    [n \in 1 .. tableCount(profileType) |-> pushedTable(profileType, n - 1, stream)]

generateFleetData(profileType, stream) ==
    LET tables == generateFleetDataUnsorted(profileType, stream)
    IN  ArraySort(tables, [j \in 1 .. Len(tables), i \in 1 .. Len(tables) |->
                              ByWasteScoreDescending(tables[j], tables[i])])

\* tables.reduce((sum, t) => sum + t[field], 0), from element i on.
RECURSIVE ReduceSum(_, _, _, _)
ReduceSum(tables, field, i, sum) ==
    IF i > Len(tables) THEN sum
    ELSE ReduceSum(tables, field, i + 1, sum + tables[i][field])

\* tables.reduce((sum, t) => sum + t.unusedGSIs.length, 0), from element i on.
RECURSIVE ReduceUnused(_, _, _)
ReduceUnused(tables, i, sum) ==
    IF i > Len(tables) THEN sum
    ELSE ReduceUnused(tables, i + 1, sum + Len(tables[i].unusedGSIs))

\* JavaScript NaN and Infinity, where every finite value is >= 0.
NaN == -1

Infinity == -2

\* Math.round(n / d) and Math.round((n / d) * 100) for integers n, d >= 0.
RoundedQuotient(n, d, scale, ulp) ==
    IF d = 0 THEN (IF n = 0 THEN NaN ELSE Infinity)
    ELSE MathRound(scale * n, d, ulp)

\* criticalThreshold with > in place of >=.
criticalThresholdStrict(t) == t.wasteScore > 70

criticalThreshold(t) == t.wasteScore >= 70

\* calculateFleetStats summing monthlySpend where it sums savingsPotential.
calculateFleetStatsNoSavings(tables, ulp) ==
    LET totalTables == Len(tables)
        totalMonthlySpend == ReduceSum(tables, "monthlySpend", 1, 0)
        totalSavingsPotential == ReduceSum(tables, "monthlySpend", 1, 0)
    IN  [totalTables |-> totalTables,
         totalMonthlySpend |-> totalMonthlySpend,
         totalSavingsPotential |-> totalSavingsPotential,
         criticalTables |-> Len(SelectSeq(tables, criticalThreshold)),
         avgUtilization |->
             RoundedQuotient(ReduceSum(tables, "utilizationPercent", 1, 0), totalTables,
                             1, TRUE),
         unusedGSICount |-> ReduceUnused(tables, 1, 0),
         savingsPercentage |->
             RoundedQuotient(totalSavingsPotential, totalMonthlySpend, 100, ulp)]

calculateFleetStats(tables, ulp) ==
    LET totalTables == Len(tables)
        totalMonthlySpend == ReduceSum(tables, "monthlySpend", 1, 0)
        totalSavingsPotential == ReduceSum(tables, "savingsPotential", 1, 0)
    IN  [totalTables |-> totalTables,
         totalMonthlySpend |-> totalMonthlySpend,
         totalSavingsPotential |-> totalSavingsPotential,
         criticalTables |-> Len(SelectSeq(tables, criticalThreshold)),
         \* sum / totalTables is a correctly rounded double: an exact half stays one
         avgUtilization |->
             RoundedQuotient(ReduceSum(tables, "utilizationPercent", 1, 0), totalTables,
                             1, TRUE),
         unusedGSICount |-> ReduceUnused(tables, 1, 0),
         savingsPercentage |->
             RoundedQuotient(totalSavingsPotential, totalMonthlySpend, 100, ulp)]

\* One call: what it returns (ret) and the caller's array after it (tables).
\* reduce and filter read the array and leave it as it is.
calculateFleetStatsCall(tables, ulp) ==
    [ret |-> calculateFleetStats(tables, ulp), tables |-> tables]

\* The ids of PROFILES.
PROFILES == <<"ecommerce", "gaming", "financial">>

(***************************************************************************)
(* src/unnamed/part_000: the optimization engine.  Text is a sequence of   *)
(* string pieces; a number inside a template literal is its decimal digits.*)
(***************************************************************************)
DigitChars == <<"0", "1", "2", "3", "4", "5", "6", "7", "8", "9">>

\* String(n) for an integer n >= 0, one piece per digit.
RECURSIVE NumberToString(_)
NumberToString(n) ==
    IF n < 10 THEN <<DigitChars[n + 1]>>
    ELSE NumberToString(n \div 10) \o <<DigitChars[(n % 10) + 1]>>

\* slice that returns the whole array.
ArraySliceIgnoringEnd(arr, end) == arr

\* Array.prototype.slice(0, end): a negative end counts from the end of the array.
ArraySliceFrom0(arr, end) ==
    LET n == Len(arr)
        stop == IF end < 0 THEN (IF n + end < 0 THEN 0 ELSE n + end) ELSE Min(end, n)
    IN  SubSeq(arr, 1, stop)

\* Array.prototype.join(sep).
RECURSIVE ArrayJoin(_, _)
ArrayJoin(arr, sep) ==
    IF Len(arr) = 0 THEN <<>>
    ELSE IF Len(arr) = 1 THEN <<arr[1]>>
    ELSE <<arr[1], sep>> \o ArrayJoin(Tail(arr), sep)

ToLowerCase(pattern) ==
    CASE pattern = "STEADY" -> "steady"
      [] pattern = "SPIKY" -> "spiky"
      [] pattern = "BURSTY" -> "bursty"

\* The comparator with its operands exchanged.
BySavingsPotentialAscending(a, b) == a.savingsPotential - b.savingsPotential

BySavingsPotentialDescending(a, b) == b.savingsPotential - a.savingsPotential

\* The four rule checks of the loop body, in source order.
switchToOnDemand(table) ==
    IF table.capacityMode = "PROVISIONED" /\ table.trafficPattern = "SPIKY"
    THEN <<[type |-> "SWITCH_TO_ONDEMAND",
            title |-> <<"Switch to On-Demand">>,
            description |-> <<"Traffic pattern is ", ToLowerCase(table.trafficPattern),
                              ", On-Demand would be more cost-effective">>,
            \* monthlySpend * 0.4 is never an exact half
            estimatedSavings |-> MathRound(4 * table.monthlySpend, 10, TRUE),
            priority |-> "HIGH",
            icon |-> "bolt"]>>
    ELSE <<>>

\* rightSize with <= 30 in place of < 30.
rightSizeAtThirty(table, low) ==
    IF table.capacityMode = "PROVISIONED" /\ table.utilizationPercent <= 30
    THEN <<[type |-> "RIGHT_SIZE",
            title |-> <<"Right-size Capacity">>,
            description |-> <<"Only ">> \o NumberToString(table.utilizationPercent)
                            \o <<"% utilization - reduce provisioned capacity">>,
            estimatedSavings |->
                MathRound(table.monthlySpend * (100 - table.utilizationPercent), 200,
                          table.id \notin low),
            priority |-> IF table.utilizationPercent < 15 THEN "HIGH" ELSE "MEDIUM",
            icon |-> "chart-down"]>>
    ELSE <<>>

rightSize(table, low) ==
    IF table.capacityMode = "PROVISIONED" /\ table.utilizationPercent < 30
    THEN <<[type |-> "RIGHT_SIZE",
            title |-> <<"Right-size Capacity">>,
            description |-> <<"Only ">> \o NumberToString(table.utilizationPercent)
                            \o <<"% utilization - reduce provisioned capacity">>,
            estimatedSavings |->
                MathRound(table.monthlySpend * (100 - table.utilizationPercent), 200,
                          table.id \notin low),
            priority |-> IF table.utilizationPercent < 15 THEN "HIGH" ELSE "MEDIUM",
            icon |-> "chart-down"]>>
    ELSE <<>>

removeGsi(table) ==
    IF Len(table.unusedGSIs) > 0
    THEN <<[type |-> "REMOVE_GSI",
            title |-> <<"Delete ">> \o NumberToString(Len(table.unusedGSIs))
                      \o <<" Unused GSI", IF Len(table.unusedGSIs) > 1 THEN "s" ELSE "">>,
            description |-> <<"GSIs without recent queries: ">>
                            \o ArrayJoin(table.unusedGSIs, ", "),
            estimatedSavings |-> Len(table.unusedGSIs) * 50,
            priority |-> IF Len(table.unusedGSIs) >= 2 THEN "HIGH" ELSE "MEDIUM",
            icon |-> "bin"]>>
    ELSE <<>>

addDax(table) ==
    IF table.consumedRCU > 5000 /\ table.trafficPattern = "STEADY"
    THEN <<[type |-> "ADD_DAX",
            title |-> <<"Consider DAX Cache">>,
            description |-> <<"High read throughput with steady pattern - DAX could reduce costs">>,
            \* monthlySpend * 0.25 is exact in a double
            estimatedSavings |-> MathRound(table.monthlySpend, 4, TRUE),
            priority |-> "LOW",
            icon |-> "rocket"]>>
    ELSE <<>>

actionsOf(table, low) ==
    switchToOnDemand(table) \o rightSize(table, low) \o removeGsi(table) \o addDax(table)

\* reducePrimary with >= in place of >: the last of equal maxima wins.
RECURSIVE reducePrimaryLastWins(_, _, _)
reducePrimaryLastWins(actions, i, max) ==
    IF i > Len(actions) THEN max
    ELSE reducePrimaryLastWins(actions, i + 1,
                               IF actions[i].estimatedSavings >= max.estimatedSavings
                               THEN actions[i] ELSE max)

\* actions.reduce((max, a) => a.estimatedSavings > max.estimatedSavings ? a : max),
\* from element i on, max being the accumulator.
RECURSIVE reducePrimary(_, _, _)
reducePrimary(actions, i, max) ==
    IF i > Len(actions) THEN max
    ELSE reducePrimary(actions, i + 1,
                       IF actions[i].estimatedSavings > max.estimatedSavings
                       THEN actions[i] ELSE max)

primaryActionOf(actions) == reducePrimary(actions, 2, actions[1])

\* The for loop over sortedTables.slice(0, limit), from element i on.
RECURSIVE recommendationLoop(_, _, _, _)
recommendationLoop(selected, i, low, recommendations) ==
    IF i > Len(selected) THEN recommendations
    ELSE LET table == selected[i]
             actions == actionsOf(table, low)
         IN  recommendationLoop(selected, i + 1, low,
                 IF Len(actions) > 0
                 THEN Append(recommendations,
                             [tableId |-> table.id,
                              tableName |-> table.tableName,
                              region |-> table.region,
                              currentSpend |-> table.monthlySpend,
                              wasteScore |-> table.wasteScore,
                              totalSavings |-> table.savingsPotential,
                              primaryAction |-> primaryActionOf(actions),
                              allActions |-> actions])
                 ELSE recommendations)

\* generateRecommendationsCall sorting the caller's array, not a copy of it.
generateRecommendationsCallInPlace(tables, limit, low) ==
    LET sortedTables ==
            ArraySort(tables, [j \in 1 .. Len(tables), i \in 1 .. Len(tables) |->
                                  BySavingsPotentialDescending(tables[j], tables[i])])
    IN  [ret |-> recommendationLoop(ArraySliceFrom0(sortedTables, limit), 1, low, <<>>),
         tables |-> sortedTables]

\* One call: what it returns (ret) and the caller's array after it (tables).
\* [...tables] copies the array, so sort reorders the copy.
\* low: the ids of the tables whose RIGHT_SIZE product lands below an exact half.
generateRecommendationsCall(tables, limit, low) ==
    LET copy == tables
        sortedTables ==
            ArraySort(copy, [j \in 1 .. Len(copy), i \in 1 .. Len(copy) |->
                                BySavingsPotentialDescending(copy[j], copy[i])])
    IN  [ret |-> recommendationLoop(ArraySliceFrom0(sortedTables, limit), 1, low, <<>>),
         tables |-> tables]

generateRecommendations(tables, limit, low) ==
    generateRecommendationsCall(tables, limit, low).ret

\* The amounts below 2750 that end in 50 and whose quotient amount / 1000 is a
\* double below the exact quotient (1150 / 1000 is 1.149999999999999911...).
ToFixedLow == {1150, 1450, 1650, 1950, 2050, 2150, 2550, 2650}

\* (amount / 1000).toFixed(1): the number of tenths nearest to the double
\* amount / 1000, the larger one at an exact half.
ToFixed1Thousandths(amount) ==
    LET tenths == MathRound(amount, 100, amount \notin ToFixedLow)
    IN  NumberToString(tenths \div 10) \o <<".", DigitChars[(tenths % 10) + 1]>>

\* formatCurrency with > 1000 in place of >= 1000.
formatCurrencyAbove(amount) ==
    IF amount > 1000
    THEN <<"$">> \o ToFixed1Thousandths(amount) \o <<"k">>
    ELSE <<"$">> \o NumberToString(amount)

formatCurrency(amount) ==
    IF amount >= 1000
    THEN <<"$">> \o ToFixed1Thousandths(amount) \o <<"k">>
    ELSE <<"$">> \o NumberToString(amount)

\* getWasteCategory with > 0.7 in place of >= 0.7.
getWasteCategoryStrict(score) ==
    IF score > 70 THEN "critical"
    ELSE IF score >= 40 THEN "warning"
    ELSE "good"

\* score is in hundredths.
getWasteCategory(score) ==
    IF score >= 70 THEN "critical"
    ELSE IF score >= 40 THEN "warning"
    ELSE "good"

(***************************************************************************)
(* src/unnamed/part_000: HomePage.                                         *)
(***************************************************************************)
\* String.prototype.trim() on a text given as its characters.
RECURSIVE TrimStart(_)
TrimStart(text) ==
    IF Len(text) > 0 /\ Head(text) = " " THEN TrimStart(Tail(text)) ELSE text

RECURSIVE TrimEnd(_)
TrimEnd(text) ==
    IF Len(text) > 0 /\ text[Len(text)] = " "
    THEN TrimEnd(SubSeq(text, 1, Len(text) - 1))
    ELSE text

Trim(text) == TrimEnd(TrimStart(text))

\* `${prefix}-${env}-${String(index).padStart(2, '0')}` (fleetData.js, tableName).
tableNameText(name) ==
    <<name.prefix, "-", name.env, "-">>
    \o (IF name.index < 10 THEN <<"0">> ELSE <<>>) \o NumberToString(name.index)

\* The message handleProfileSelect puts in the chat; data is never empty there.
greeting(profileId, data) ==
    [role |-> "assistant",
     content |-> <<"Fleet analysis complete! I found ">> \o NumberToString(Len(data))
                 \o <<" tables in your ", profileId,
                      " fleet. The top optimization opportunity is **">>
                 \o tableNameText(data[1].tableName)
                 \o <<"** with a waste score of ">> \o NumberToString(data[1].wasteScore)
                 \o <<"%. Would you like me to explain why this table is prioritized?">>]

\* The columns handleSort is wired to, and the order of a column's values.
SortKeys == {"tableName", "wasteScore", "monthlySpend", "utilizationPercent"}

\* Table names compare as strings: by prefix, then environment, then the
\* two-digit index.  No prefix and no environment begins another one.
PrefixesInOrder ==
    <<"accounts", "achievements", "alerts", "audit", "cards", "carts", "chat",
      "compliance", "customers", "events", "fraud", "guilds", "inventory", "kyc",
      "leaderboards", "loans", "matches", "orders", "payments", "players", "products",
      "promotions", "purchases", "reports", "returns", "reviews", "sessions",
      "shipments", "statements", "stats", "transactions", "users", "wishlists">>

EnvironmentsInOrder == <<"dev", "prod", "staging", "test">>

PlaceIn(seq, x) == CHOOSE i \in 1 .. Len(seq) : seq[i] = x

sortValue(table, key) ==
    IF key = "tableName"
    THEN (PlaceIn(PrefixesInOrder, table.tableName.prefix) * 4
          + PlaceIn(EnvironmentsInOrder, table.tableName.env)) * 100 + table.tableName.index
    ELSE table[key]

\* Array.prototype.sort with the comparator of sortedData,
\*     (aVal > bVal ? 1 : -1) * modifier,
\* which never answers 0: where two values are equal it claims both orders, and
\* the order of such elements is the engine's choice (kept or not: tieKeep).
sortByColumn(arr, config, tieKeep) ==
    LET n == Len(arr)
        val == [i \in 1 .. n |-> sortValue(arr[i], config.key)]
        before(j, i) == IF val[j] = val[i] THEN (IF tieKeep THEN j < i ELSE j > i)
                        ELSE IF config.direction = "desc" THEN val[j] > val[i]
                        ELSE val[j] < val[i]
        rank == [i \in 1 .. n |-> Cardinality({j \in 1 .. n : j # i /\ before(j, i)}) + 1]
    IN  [r \in 1 .. n |-> arr[CHOOSE i \in 1 .. n : rank[i] = r]]

\* One evaluation of the sortedData memo: the rows it yields.
sortedDataOf(tables, config, tieKeep) ==
    IF Len(tables) = 0 THEN <<>> ELSE sortByColumn(tables, config, tieKeep)

\* fleetData after that evaluation: [...fleetData] copies the array and sort
\* reorders the copy, so the array itself is as it was.
fleetDataAfterSortedData(tables, config, tieKeep) == tables

\* setSortConfig(prev => ...) of handleSort.
nextSortConfig(prev, key) ==
    [key |-> key,
     direction |-> IF prev.key = key /\ prev.direction = "desc" THEN "asc" ELSE "desc"]

\* The stats and recommendations memos for the array data, and data after them.
\* side says where the doubles of this evaluation land at their thresholds
\* (TRUE: on or above, FALSE: below).
derivedData(data, side) ==
    IF Len(data) > 0
    THEN LET s == calculateFleetStatsCall(data, side)
             r == generateRecommendationsCall(
                      s.tables, 10, IF side THEN {} ELSE {data[i].id : i \in 1 .. Len(data)})
         IN  [stats |-> <<s.ret>>, recommendations |-> r.ret, fleetData |-> r.tables]
    ELSE [stats |-> <<>>, recommendations |-> <<>>, fleetData |-> data]

(***************************************************************************)
(* State.  call is one invocation of a library function: its arguments     *)
(* and, once it has returned, what it returned.  The other variables are   *)
(* the state of HomePage.                                                  *)
(***************************************************************************)
VARIABLES call, activeProfile, fleetData, sortConfig, chatInput, messages, isLoading,
          stats, recommendations, pending

pageVars == <<activeProfile, fleetData, sortConfig, chatInput, messages, isLoading,
              stats, recommendations, pending>>

vars == <<call, activeProfile, fleetData, sortConfig, chatInput, messages, isLoading,
          stats, recommendations, pending>>

\* The rows the fleet table shows: a memo of fleetData and sortConfig.
sortedData(tieKeep) == sortedDataOf(fleetData, sortConfig, tieKeep)

\* No call in progress.
NoCall == [fn |-> "none"]

\* activeProfile before any selection, and stats while there is no fleet.
NoProfile == "null"

NoStats == <<>>

PageInit ==
    /\ activeProfile = NoProfile
    /\ fleetData = <<>>
    /\ sortConfig = [key |-> "wasteScore", direction |-> "desc"]
    /\ chatInput = <<>>
    /\ messages = <<>>
    /\ isLoading = FALSE
    /\ stats = NoStats
    /\ recommendations = <<>>
    /\ pending = <<>>

(***************************************************************************)
(* generateTable, on every combination of draws at and around the          *)
(* thresholds the code compares them with.                                 *)
(***************************************************************************)
ProfileTypes == {"ecommerce", "gaming", "financial", "unknown"}

\* The two draws on either side of Math.random() > t / 10.
ThresholdDraws(t) == {(t * RandomResolution) \div 10, (t * RandomResolution) \div 10 + 1}

\* The first, a middle and the last value of a range.
RangeDraws == {0, RandomResolution \div 2, RandomResolution - 1}

TableDrawSpace ==
    [prov : ThresholdDraws(3), high : ThresholdDraws(6),
     rcu : {0, RandomResolution \div 16, RandomResolution - 1}, wcu : {0, RandomResolution - 1},
     band : ThresholdDraws(5) \cup {(7 * RandomResolution) \div 10 + 1},
     util : RangeDraws \cup {(15 * RandomResolution) \div 16},
     gsi : RangeDraws, coin : ThresholdDraws(5), num : {0, RandomResolution - 1},
     name1 : {0}, name2 : {RandomResolution - 1}, name3 : {RandomResolution \div 2},
     pattern : RangeDraws, region : {0}]

TableInit ==
    /\ call \in [fn : {"generateTable"}, prefix : {"orders"}, env : {"prod"}, index : {1},
                 profileType : ProfileTypes, d : TableDrawSpace, ret : {<<>>}]
    /\ PageInit

CallGenerateTable ==
    /\ call.fn = "generateTable"
    /\ call.ret = <<>>
    /\ \E low \in SUBSET RoundingPlaces :
          call' = [call EXCEPT !.ret = <<generateTable(call.prefix, call.env, call.index,
                                                       call.profileType, call.d, low)>>]
    /\ UNCHANGED pageVars

TableNext == CallGenerateTable

SpecTable == TableInit /\ [][TableNext]_vars

(***************************************************************************)
(* generateFleetData, on every profile type and on MaxSeed + 1 runs of     *)
(* the random stream.                                                      *)
(***************************************************************************)
MaxSeed == 13

\* The state in which run number seed of the random stream starts.
StreamStart(seed) == (seed * 2741 + 17) % RandomResolution

\* Draws that repeat for every table of a fleet.  QuietDraws: an ON_DEMAND,
\* STEADY table of low traffic without GSIs.  BusyDraws: a PROVISIONED, STEADY
\* table of the highest read capacity, at the top of its utilization band, with
\* five GSIs of which one is unused.
QuietDraws ==
    [env |-> 0, prov |-> 0, high |-> 0, rcu |-> 0, wcu |-> 0, band |-> 0,
     util |-> RandomResolution \div 2, gsi |-> 0, coin |-> 0, num |-> 0, name1 |-> 0,
     name2 |-> 0, name3 |-> 0, pattern |-> 0, region |-> 0, low |-> {}]

BusyDraws ==
    [env |-> 0, prov |-> RandomResolution - 1, high |-> RandomResolution - 1,
     rcu |-> RandomResolution - 1, wcu |-> 0, band |-> (6 * RandomResolution) \div 10,
     util |-> RandomResolution - 1, gsi |-> RandomResolution - 1,
     coin |-> RandomResolution - 1, num |-> 0, name1 |-> 0, name2 |-> 0, name3 |-> 0,
     pattern |-> 0, region |-> 0, low |-> {}]

Streams ==
    {CongruentialStream(StreamStart(seed)) : seed \in 0 .. MaxSeed}
    \cup {RepeatingStream(QuietDraws), RepeatingStream(BusyDraws)}

FleetInit ==
    /\ call \in [fn : {"generateFleetData"}, profileType : ProfileTypes,
                 stream : Streams, pushed : {<<>>}, ret : {<<>>}, derived : {<<>>}]
    /\ PageInit

\* pushed is the array the loop has filled, before tables.sort.
CallGenerateFleetData ==
    /\ call.fn = "generateFleetData"
    /\ call.ret = <<>>
    /\ call' = [call EXCEPT
                  !.pushed = generateFleetDataUnsorted(call.profileType, call.stream),
                  !.ret = generateFleetData(call.profileType, call.stream)]
    /\ UNCHANGED pageVars

\* What HomePage computes from the returned fleet: the stats and
\* recommendations memos.
CallDerivedData ==
    /\ call.fn = "generateFleetData"
    /\ call.ret # <<>>
    /\ call.derived = <<>>
    /\ \E side \in BOOLEAN :
          call' = [call EXCEPT !.derived = <<derivedData(call.ret, side)>>]
    /\ UNCHANGED pageVars

FleetNext == CallGenerateFleetData \/ CallDerivedData

SpecFleet == FleetInit /\ [][FleetNext]_vars

\* The generator as a whole: one call of generateTable on the draws of
\* TableDrawSpace, or one call of generateFleetData with the memos over it.
SpecGenerator == (TableInit \/ FleetInit) /\ [][TableNext \/ FleetNext]_vars

(***************************************************************************)
(* generateRecommendations and calculateFleetStats, on table records that  *)
(* need not come from the generator: every one-table array over the values *)
(* the rules compare, and every array of up to MaxTables records of a      *)
(* palette with ties in savingsPotential, ties between actions, tables     *)
(* that trigger nothing and a table that costs nothing.                    *)
(***************************************************************************)
MaxTables == 3

MaxLimit == 4

SampleTable(mode, pattern, util, unused, rcu, spend, savings, waste) ==
    [id |-> 0,
     tableName |-> [prefix |-> "orders", env |-> "prod", index |-> 0],
     region |-> "us-east-1",
     environment |-> "prod",
     capacityMode |-> mode,
     provisionedRCU |-> IF mode = "PROVISIONED" THEN 10000 ELSE Null,
     provisionedWCU |-> IF mode = "PROVISIONED" THEN 3000 ELSE Null,
     consumedRCU |-> rcu,
     consumedWCU |-> 0,
     utilizationPercent |-> util,
     gsiCount |-> 5,
     unusedGSIs |-> SubSeq(UNUSED_GSI_NAMES, 1, unused),
     trafficPattern |-> pattern,
     monthlySpend |-> spend,
     wasteScore |-> waste,
     savingsPotential |-> savings]

CapacityModes == {"PROVISIONED", "ON_DEMAND"}

TrafficPatterns == {"STEADY", "SPIKY", "BURSTY"}

OneTableArrays ==
    {<<SampleTable(mode, pattern, util, unused, rcu, spend, 100, 50)>> :
        mode \in CapacityModes, pattern \in TrafficPatterns,
        util \in {10, 14, 15, 29, 30, 60}, unused \in 0 .. 2,
        rcu \in {5000, 5001}, spend \in {0, 10, 125, 1000}}

Palette ==
    {SampleTable("PROVISIONED", "SPIKY", 10, 1, 100, 1000, 900, 100),
     SampleTable("ON_DEMAND", "STEADY", 60, 0, 100, 500, 500, 0),
     SampleTable("PROVISIONED", "SPIKY", 60, 1, 100, 125, 100, 70),
     SampleTable("ON_DEMAND", "STEADY", 60, 2, 6000, 10, 100, 69),
     SampleTable("PROVISIONED", "BURSTY", 10, 0, 100, 10, 900, 40),
     SampleTable("ON_DEMAND", "BURSTY", 60, 0, 100, 0, 0, 39)}

PaletteArrays == UNION {[1 .. n -> Palette] : n \in 0 .. MaxTables}

\* The id of a table is its place in the array.
WithIds(tables) == [i \in 1 .. Len(tables) |-> [tables[i] EXCEPT !.id = i]]

EngineArrays == {WithIds(t) : t \in OneTableArrays \cup PaletteArrays}

EngineInit ==
    /\ call \in [fn : {"generateRecommendations"}, tables : EngineArrays,
                 limit : (0 - 2) .. MaxLimit, state : {"called"}, after : {<<>>},
                 ret : {<<>>}]
              \cup
              [fn : {"calculateFleetStats"}, tables : EngineArrays,
               limit : {0}, state : {"called"}, after : {<<>>}, ret : {<<>>}]
    /\ PageInit

\* after is the caller's array once the call has returned.
CallGenerateRecommendations ==
    /\ call.fn = "generateRecommendations"
    /\ call.state = "called"
    /\ \E low \in SUBSET (1 .. Len(call.tables)) :
          LET c == generateRecommendationsCall(call.tables, call.limit, low)
          IN  call' = [call EXCEPT !.state = "returned", !.after = c.tables, !.ret = c.ret]
    /\ UNCHANGED pageVars

CallCalculateFleetStats ==
    /\ call.fn = "calculateFleetStats"
    /\ call.state = "called"
    /\ \E ulp \in BOOLEAN :
          LET c == calculateFleetStatsCall(call.tables, ulp)
          IN  call' = [call EXCEPT !.state = "returned", !.after = c.tables, !.ret = c.ret]
    /\ UNCHANGED pageVars

EngineNext == CallGenerateRecommendations \/ CallCalculateFleetStats

SpecEngine == EngineInit /\ [][EngineNext]_vars

(***************************************************************************)
(* formatCurrency on every amount up to MaxAmount, and getWasteCategory    *)
(* on every score up to MaxScore hundredths, as the label of a table row   *)
(* whose wasteScore it is.                                                 *)
(***************************************************************************)
MaxAmount == 2600

MaxScore == 110

FormatInit ==
    /\ call \in [fn : {"formatCurrency"}, arg : 0 .. MaxAmount, state : {"called"},
                 ret : {<<>>}, counted : {0}]
              \cup
              [fn : {"getWasteCategory"}, arg : 0 .. MaxScore, state : {"called"},
               ret : {<<>>}, counted : {0}]
    /\ PageInit

CallFormatCurrency ==
    /\ call.fn = "formatCurrency"
    /\ call.state = "called"
    /\ call' = [call EXCEPT !.state = "returned", !.ret = formatCurrency(call.arg)]
    /\ UNCHANGED pageVars

\* The row of the fleet table for a record with this wasteScore gets the label
\* ret (the waste-badge class); counted is what calculateFleetStats reports
\* as criticalTables for that one record.
CallGetWasteCategory ==
    /\ call.fn = "getWasteCategory"
    /\ call.state = "called"
    /\ LET row == SampleTable("PROVISIONED", "STEADY", 50, 0, 100, 100, 0, call.arg)
       IN  call' = [call EXCEPT
                      !.state = "returned",
                      !.ret = getWasteCategory(row.wasteScore),
                      !.counted = calculateFleetStats(<<row>>, TRUE).criticalTables]
    /\ UNCHANGED pageVars

FormatNext == CallFormatCurrency \/ CallGetWasteCategory

SpecFormat == FormatInit /\ [][FormatNext]_vars

(***************************************************************************)
(* HomePage: the handlers and the completions of the chat request.  A      *)
(* handler runs to its end, and the render that follows it recomputes the  *)
(* memos whose dependencies changed, before the next event.                *)
(***************************************************************************)
MaxPageSeed == 0

MaxMessages == 2

\* What the user types into the chat box.
ChatTexts == {<<>>, <<" ">>, <<" ", "h", "i">>}

\* The reply field of the JSON a response carries (route.js): a completion,
\* or the text the endpoint sends with status 500.
Replies ==
    {<<"reply">>,
     <<"Sorry, there was an error processing your request. Please try again.">>}

FallbackText == <<"Sorry, I encountered an error. Please try again.">>

\* What a click on a profile button can produce: generateFleetData for that
\* profile and some run of the random stream, and the memos of the render
\* after it, with the doubles of that render on one side or the other.
PageStreams == {CongruentialStream(StreamStart(seed)) : seed \in 0 .. MaxPageSeed}

PageRuns ==
    {[profileId |-> PROFILES[i], data |-> generateFleetData(PROFILES[i], stream)] :
        i \in 1 .. Len(PROFILES), stream \in PageStreams}
    \cup {[profileId |-> "gaming",
           data |-> generateFleetData("gaming", RepeatingStream(QuietDraws))]}

PageRenders ==
    {[profileId |-> run.profileId, data |-> run.data,
      derived |-> derivedData(run.data, side)] : run \in PageRuns, side \in BOOLEAN}

Init ==
    /\ call = NoCall
    /\ PageInit

\* handleProfileSelect without its setFleetData(data).
handleProfileSelectKeepingFleet(profileId) ==
    \E render \in PageRenders :
        /\ render.profileId = profileId
        /\ activeProfile' = profileId
        /\ messages' = <<greeting(profileId, render.data)>>
        /\ UNCHANGED <<call, fleetData, stats, recommendations, sortConfig, chatInput,
                       isLoading, pending>>

handleProfileSelect(profileId) ==
    \E render \in PageRenders, tieKeep \in BOOLEAN :
        /\ render.profileId = profileId
        /\ activeProfile' = profileId
        /\ messages' = <<greeting(profileId, render.data)>>
        /\ stats' = render.derived.stats
        /\ recommendations' = render.derived.recommendations
        /\ fleetData' = fleetDataAfterSortedData(render.derived.fleetData, sortConfig, tieKeep)
        /\ UNCHANGED <<call, sortConfig, chatInput, isLoading, pending>>

\* The column headers exist once a profile is active.
handleSort(key) ==
    /\ activeProfile # NoProfile
    /\ sortConfig' = nextSortConfig(sortConfig, key)
    /\ \E tieKeep \in BOOLEAN :
          fleetData' = fleetDataAfterSortedData(fleetData, sortConfig', tieKeep)
    /\ UNCHANGED <<call, activeProfile, chatInput, messages, isLoading, stats,
                   recommendations, pending>>

\* onChange of the chat box, which exists once a profile is active.
setChatInput(text) ==
    /\ activeProfile # NoProfile
    /\ chatInput' = text
    /\ UNCHANGED <<call, activeProfile, fleetData, sortConfig, messages, isLoading, stats,
                   recommendations, pending>>

\* What the two awaits of a request in flight have come to: nothing yet, the
\* parsed body of the response, or an exception (fetch rejected, or
\* response.json() rejected).
Unsettled == [kind |-> "unsettled", reply |-> <<>>]

Resolved(reply) == [kind |-> "resolved", reply |-> reply]

Failures == {[kind |-> "rejected", reply |-> <<>>], [kind |-> "unparseable", reply |-> <<>>]}

\* handleSendMessage without the isLoading test of its first line.
handleSendMessageWhileLoading ==
    /\ activeProfile # NoProfile
    /\ Trim(chatInput) # <<>>
    /\ Len(messages) < MaxMessages
    /\ chatInput' = <<>>
    /\ messages' = Append(messages, [role |-> "user", content |-> chatInput])
    /\ isLoading' = TRUE
    /\ pending' = Append(pending,
                         [message |-> chatInput,
                          context |-> [profile |-> activeProfile,
                                       stats |-> stats,
                                       topRecommendations |->
                                           ArraySliceFrom0(recommendations, 5)],
                          outcome |-> Unsettled])
    /\ UNCHANGED <<call, activeProfile, fleetData, sortConfig, stats, recommendations>>

\* handleSendMessage up to its await: the request is in flight.
handleSendMessage ==
    /\ activeProfile # NoProfile
    /\ ~(Trim(chatInput) = <<>> \/ isLoading)
    /\ Len(messages) < MaxMessages
    /\ chatInput' = <<>>
    /\ messages' = Append(messages, [role |-> "user", content |-> chatInput])
    /\ isLoading' = TRUE
    /\ pending' = Append(pending,
                         [message |-> chatInput,
                          context |-> [profile |-> activeProfile,
                                       stats |-> stats,
                                       topRecommendations |->
                                           ArraySliceFrom0(recommendations, 5)],
                          outcome |-> Unsettled])
    /\ UNCHANGED <<call, activeProfile, fleetData, sortConfig, stats, recommendations>>

\* handleSendMessage when the input is blank or a request is loading: it returns.
handleSendMessageReturn ==
    /\ activeProfile # NoProfile
    /\ Trim(chatInput) = <<>> \/ isLoading
    /\ UNCHANGED vars

\* await fetch(...) and await response.json() both fulfil: data.reply is reply.
fetchResolved(reply) ==
    /\ pending # <<>>
    /\ pending[1].outcome = Unsettled
    /\ pending' = [pending EXCEPT ![1].outcome = Resolved(reply)]
    /\ UNCHANGED <<call, activeProfile, fleetData, sortConfig, chatInput, messages,
                   isLoading, stats, recommendations>>

\* fetch rejects, or response.json() throws.
fetchFailed ==
    /\ pending # <<>>
    /\ pending[1].outcome = Unsettled
    /\ \E failure \in Failures : pending' = [pending EXCEPT ![1].outcome = failure]
    /\ UNCHANGED <<call, activeProfile, fleetData, sortConfig, chatInput, messages,
                   isLoading, stats, recommendations>>

\* handleSendMessageResume without the catch block: an exception appends nothing.
handleSendMessageResumeNoCatch ==
    /\ pending # <<>>
    /\ pending[1].outcome # Unsettled
    /\ pending' = Tail(pending)
    /\ messages' = IF pending[1].outcome.kind = "resolved"
                   THEN Append(messages, [role |-> "assistant",
                                          content |-> pending[1].outcome.reply])
                   ELSE messages
    /\ isLoading' = FALSE
    /\ UNCHANGED <<call, activeProfile, fleetData, sortConfig, chatInput, stats,
                   recommendations>>

\* handleSendMessage after its awaits: the rest of the try block or the catch
\* block, then finally.
handleSendMessageResume ==
    /\ pending # <<>>
    /\ pending[1].outcome # Unsettled
    /\ pending' = Tail(pending)
    /\ messages' = Append(messages,
                          [role |-> "assistant",
                           content |-> IF pending[1].outcome.kind = "resolved"
                                       THEN pending[1].outcome.reply
                                       ELSE FallbackText])
    /\ isLoading' = FALSE
    /\ UNCHANGED <<call, activeProfile, fleetData, sortConfig, chatInput, stats,
                   recommendations>>

Next ==
    \/ \E i \in 1 .. Len(PROFILES) : handleProfileSelect(PROFILES[i])
    \/ \E key \in SortKeys : handleSort(key)
    \/ \E text \in ChatTexts : setChatInput(text)
    \/ handleSendMessage
    \/ handleSendMessageReturn
    \/ \E reply \in Replies : fetchResolved(reply)
    \/ fetchFailed
    \/ handleSendMessageResume

Spec == Init /\ [][Next]_vars

\* The page when every request settles (the browser fulfils or rejects the
\* promises of fetch and of response.json()) and every settled promise has its
\* continuation run.
FairSpec ==
    /\ Spec
    /\ WF_vars((\E reply \in Replies : fetchResolved(reply)) \/ fetchFailed)
    /\ WF_vars(handleSendMessageResume)

(***************************************************************************)
(* The chat endpoint (src/app/api/chat/route.js).  One behaviour is one     *)
(* request: call holds the request, the module's openaiClient, what the     *)
(* upstream service does, and the handler's position (pc).                  *)
(***************************************************************************)
ErrorReply == <<"Sorry, there was an error processing your request. Please try again.">>

NoContentReply == <<"I apologize, I could not generate a response.">>

\* ${x || 'N/A'} for a field of context.stats; stats is <<>> when context has none.
StatsOrNA(st, field) ==
    IF st = <<>> \/ st[1][field] = 0 THEN <<"N/A">>
    ELSE NumberToString(st[1][field])

\* One line of the map over topRecommendations, for the element at index i - 1.
recommendationLine(rec, i) ==
    NumberToString(i) \o <<". ">> \o rec.tableName \o <<": ">>
    \o (IF rec.title = <<>> THEN <<"undefined">> ELSE rec.title)
    \o <<" (Save $">> \o NumberToString(rec.totalSavings) \o <<"/mo)">>

\* The map throws when topRecommendations has no map method (it is no array)
\* or when an element is null (rec.tableName of null).
contextInfoThrows(context) ==
    /\ context.kind = "object"
    /\ \/ context.top.kind = "number"
       \/ /\ context.top.kind = "array"
          /\ \E i \in 1 .. Len(context.top.items) : context.top.items[i].kind = "null"

\* lines.join('\n'), from element i on.
RECURSIVE joinLines(_, _)
joinLines(items, i) ==
    IF i > Len(items) THEN <<>>
    ELSE (IF i > 1 THEN <<"\n">> ELSE <<>>) \o recommendationLine(items[i], i)
         \o joinLines(items, i + 1)

topTargets(top) ==
    LET joined == IF top.kind = "array" THEN joinLines(top.items, 1) ELSE <<>>
    IN  IF joined = <<>> THEN <<"No recommendations yet">> ELSE joined

\* contextInfo, when building it does not throw.
contextInfoOf(context) ==
    IF context.kind # "object" THEN <<>>
    ELSE <<"\n\nCurrent Fleet Context:\n- Profile: ", context.profile>>
         \o <<"\n- Total Tables: ">> \o StatsOrNA(context.stats, "totalTables")
         \o <<"\n- Monthly Spend: $">> \o StatsOrNA(context.stats, "totalMonthlySpend")
         \o <<"\n- Savings Potential: $">>
         \o StatsOrNA(context.stats, "totalSavingsPotential")
         \o <<"\n- Critical Tables: ">> \o StatsOrNA(context.stats, "criticalTables")
         \o <<"\n\nTop 5 Optimization Targets:\n">> \o topTargets(context.top)

\* completion.choices[0]?.message?.content || '...' : the fallback replaces a
\* missing first choice, a missing message, and null or empty content.
replyOf(completion) ==
    IF completion.choices = <<>> THEN NoContentReply
    ELSE IF completion.choices[1].content = <<>> THEN NoContentReply
    ELSE completion.choices[1].content

\* completion.choices[0] throws when the completion has no choices property.
completionThrows(completion) == completion.kind = "no choices property"

RouteItems ==
    {[kind |-> "object", tableName |-> <<"orders-prod-01">>, title |-> <<"Right-size Capacity">>,
      totalSavings |-> 450],
     [kind |-> "object", tableName |-> <<"carts-dev-42">>, title |-> <<>>, totalSavings |-> 0],
     [kind |-> "null", tableName |-> <<>>, title |-> <<>>, totalSavings |-> 0]}

RouteTops ==
    {[kind |-> "absent", items |-> <<>>], [kind |-> "number", items |-> <<>>],
     [kind |-> "array", items |-> <<>>]}
    \cup {[kind |-> "array", items |-> <<a>>] : a \in RouteItems}
    \cup {[kind |-> "array", items |-> <<a, b>>] : a, b \in RouteItems}

RouteStats ==
    {<<>>,
     <<[totalTables |-> 70, totalMonthlySpend |-> 0, totalSavingsPotential |-> 1500,
        criticalTables |-> 0]>>}

RouteContexts ==
    {[kind |-> "absent", profile |-> "", stats |-> <<>>, top |-> [kind |-> "absent", items |-> <<>>]]}
    \cup [kind : {"object"}, profile : {"gaming"}, stats : RouteStats, top : RouteTops]

\* The body of the request: no JSON, the JSON null (its destructuring throws),
\* or an object.
RouteBodies ==
    {[kind |-> k, message |-> <<>>,
      context |-> [kind |-> "absent", profile |-> "", stats |-> <<>>,
                   top |-> [kind |-> "absent", items |-> <<>>]]] : k \in {"unparseable", "null"}}
    \cup [kind : {"object"}, message : {<<"h", "i">>}, context : RouteContexts]

\* What openai.chat.completions.create comes to: a rejection, or a completion.
\* content is <<>> for null, undefined or the empty string.
Completions ==
    {[kind |-> "rejected", choices |-> <<>>],
     [kind |-> "no choices property", choices |-> <<>>],
     [kind |-> "completion", choices |-> <<>>],
     [kind |-> "completion", choices |-> <<[content |-> <<>>]>>],
     [kind |-> "completion", choices |-> <<[content |-> <<"Use On-Demand.">>]>>]}

RouteInit ==
    /\ call \in [fn : {"POST"}, body : RouteBodies,
                 \* openaiClient already set by an earlier request, or null with a
                 \* constructor that returns or throws (no API key)
                 openaiClient : {"set", "null", "null: constructor throws"},
                 pc : {"start"}, created : {0}, sent : {<<>>},
                 completion : {[kind |-> "none", choices |-> <<>>]},
                 status : {0}, reply : {<<>>}]
    /\ PageInit

\* The catch block.
routeCaught(c) == [c EXCEPT !.pc = "returned", !.status = 500, !.reply = ErrorReply]

\* From await request.json() to the call of create, or into the catch block.
POSTBody ==
    /\ call.fn = "POST"
    /\ call.pc = "start"
    /\ call' = IF \/ call.body.kind \in {"unparseable", "null"}
                  \/ contextInfoThrows(call.body.context)
                  \/ call.openaiClient = "null: constructor throws"
               THEN routeCaught(call)
               ELSE [call EXCEPT !.pc = "create", !.openaiClient = "set",
                                 !.created = call.created + 1,
                                 !.sent = <<[role |-> "system",
                                             content |-> contextInfoOf(call.body.context)],
                                            [role |-> "user",
                                             content |-> call.body.message]>>]
    /\ UNCHANGED pageVars

\* POSTCompletion without the || fallback of reply.
POSTCompletionNoFallback ==
    /\ call.fn = "POST"
    /\ call.pc = "create"
    /\ \E completion \in Completions :
          LET settled == [call EXCEPT !.completion = completion]
          IN  call' = IF completion.kind = "rejected" \/ completionThrows(completion)
                      THEN routeCaught(settled)
                      ELSE [settled EXCEPT !.pc = "returned", !.status = 200,
                                           !.reply = IF completion.choices = <<>> THEN <<>>
                                                     ELSE completion.choices[1].content]
    /\ UNCHANGED pageVars

\* From the settling of create to the return.
POSTCompletion ==
    /\ call.fn = "POST"
    /\ call.pc = "create"
    /\ \E completion \in Completions :
          LET settled == [call EXCEPT !.completion = completion]
          IN  call' = IF completion.kind = "rejected" \/ completionThrows(completion)
                      THEN routeCaught(settled)
                      ELSE [settled EXCEPT !.pc = "returned", !.status = 200,
                                           !.reply = replyOf(completion)]
    /\ UNCHANGED pageVars

RouteNext == POSTBody \/ POSTCompletion

SpecRoute == RouteInit /\ [][RouteNext]_vars

(***************************************************************************)
(* Properties.                                                             *)
(***************************************************************************)
Returned(fn) == call.fn = fn /\ call.state = "returned"

NonIncreasingBy(tables, field) ==
    \A i \in 1 .. Len(tables) - 1 : tables[i][field] >= tables[i + 1][field]

\* C1: for each profile type (ecommerce, gaming, financial, anything else) and
\* each run of the random stream, generateFleetData returns exactly 70 / 45 / 90 /
\* 50 records, and each record's wasteScore is >= that of the record after it.
C1_FleetCountAndOrder ==
    (call.fn = "generateFleetData" /\ call.ret # <<>>) =>
        /\ Len(call.ret) = (CASE call.profileType = "ecommerce" -> 70
                              [] call.profileType = "gaming" -> 45
                              [] call.profileType = "financial" -> 90
                              [] OTHER -> 50)
        /\ NonIncreasingBy(call.ret, "wasteScore")

\* An unrecognized profile got its 50 tables, and the loop had pushed them in
\* another order than the one returned.
C1_Witness ==
    /\ call.fn = "generateFleetData"
    /\ call.ret # <<>>
    /\ call.profileType = "unknown"
    /\ Len(call.ret) = 50
    /\ ~NonIncreasingBy(call.pushed, "wasteScore")
    /\ \E i \in 1 .. 49 : call.ret[i].wasteScore > call.ret[i + 1].wasteScore

\* C2: every record generateTable returns has wasteScore in [0, 1],
\* utilizationPercent in [0, 100], gsiCount in 0..5, at most min(3, gsiCount)
\* unused GSIs; when PROVISIONED, positive provisioned values that the consumed
\* ones do not exceed; when ON_DEMAND, null provisioned values.
C2_TableRanges ==
    (call.fn = "generateTable" /\ call.ret # <<>>) =>
        LET t == call.ret[1]
        IN  /\ 0 <= t.wasteScore /\ t.wasteScore <= 100
            /\ 0 <= t.utilizationPercent /\ t.utilizationPercent <= 100
            /\ 0 <= t.gsiCount /\ t.gsiCount <= 5
            /\ Len(t.unusedGSIs) <= 3
            /\ Len(t.unusedGSIs) <= t.gsiCount
            /\ t.capacityMode \in {"PROVISIONED", "ON_DEMAND"}
            /\ t.capacityMode = "PROVISIONED" =>
                  /\ t.provisionedRCU > 0 /\ t.provisionedWCU > 0
                  /\ t.consumedRCU <= t.provisionedRCU
                  /\ t.consumedWCU <= t.provisionedWCU
            /\ t.capacityMode = "ON_DEMAND" =>
                  t.provisionedRCU = Null /\ t.provisionedWCU = Null

\* A PROVISIONED table at the top of every range: the largest capacity, five
\* GSIs of which three unused, and a waste score that Math.min capped at 1.
C2_Witness ==
    /\ call.fn = "generateTable"
    /\ call.ret # <<>>
    /\ call.ret[1].capacityMode = "PROVISIONED"
    /\ call.ret[1].provisionedRCU = 10000
    /\ call.ret[1].gsiCount = 5
    /\ Len(call.ret[1].unusedGSIs) = 3
    /\ call.ret[1].wasteScore = 100

\* The sum of field over the records of tables.
RECURSIVE SumOf(_, _)
SumOf(tables, field) ==
    IF tables = <<>> THEN 0 ELSE Head(tables)[field] + SumOf(Tail(tables), field)

RECURSIVE UnusedOf(_)
UnusedOf(tables) ==
    IF tables = <<>> THEN 0 ELSE Len(Head(tables).unusedGSIs) + UnusedOf(Tail(tables))

\* r is an integer nearest to n / d (d > 0).
NearestTo(r, n, d) == 2 * r * d - d <= 2 * n /\ 2 * n <= 2 * r * d + d

\* C3: on a non-empty array calculateFleetStats returns the length, the sums of
\* monthlySpend, savingsPotential and unusedGSIs.length, the number of records
\* with wasteScore >= 0.7, the rounded mean utilization, and
\* round(totalSavingsPotential / totalMonthlySpend * 100): the nearest integer,
\* and the double that a division by a zero total yields (NaN for 0 / 0,
\* Infinity otherwise).
C3_FleetStats ==
    (Returned("calculateFleetStats") /\ Len(call.tables) > 0) =>
        LET st == call.ret
            spend == SumOf(call.tables, "monthlySpend")
            savings == SumOf(call.tables, "savingsPotential")
        IN  /\ st.totalTables = Len(call.tables)
            /\ st.totalMonthlySpend = spend
            /\ st.totalSavingsPotential = savings
            /\ st.criticalTables
                  = Cardinality({i \in 1 .. Len(call.tables) : call.tables[i].wasteScore >= 70})
            /\ st.unusedGSICount = UnusedOf(call.tables)
            /\ NearestTo(st.avgUtilization, SumOf(call.tables, "utilizationPercent"),
                         Len(call.tables))
            /\ IF spend > 0 THEN NearestTo(st.savingsPercentage, 100 * savings, spend)
               ELSE IF savings = 0 THEN st.savingsPercentage = NaN
               ELSE st.savingsPercentage = Infinity

\* Three tables, two of them critical, with savings of 1500 on a spend of 1625:
\* 92 per cent.
C3_Witness ==
    /\ Returned("calculateFleetStats")
    /\ call.ret.totalTables = 3
    /\ call.ret.criticalTables = 2
    /\ call.ret.unusedGSICount = 2
    /\ call.ret.totalMonthlySpend = 1625
    /\ call.ret.totalSavingsPotential = 1500
    /\ call.ret.savingsPercentage = 92

\* C4 as stated: for every array and every integer limit, generateRecommendations
\* returns at most limit entries.
C4_AtMostLimit_AsStated ==
    Returned("generateRecommendations") => Len(call.ret) <= call.limit

\* C4, amended: for every limit >= 0 it returns at most limit entries; for a
\* negative limit it returns at most max(0, tables.length + limit) entries.
C4_AtMostLimit ==
    Returned("generateRecommendations") =>
        IF call.limit >= 0 THEN Len(call.ret) <= call.limit
        ELSE /\ Len(call.ret) <= Len(call.tables) + call.limit \/ Len(call.ret) = 0
             /\ Len(call.ret) <= Len(call.tables)

\* Three tables that each trigger an action, and a limit of 2 that cut them to 2.
C4_Witness ==
    /\ Returned("generateRecommendations")
    /\ call.limit = 2
    /\ Len(call.tables) = 3
    /\ \A i \in 1 .. 3 : Len(call.tables[i].unusedGSIs) > 0
    /\ Len(call.ret) = 2

ActionOrder == <<"SWITCH_TO_ONDEMAND", "RIGHT_SIZE", "REMOVE_GSI", "ADD_DAX">>

PlaceOfType(type) == CHOOSE k \in 1 .. Len(ActionOrder) : ActionOrder[k] = type

\* C5: every returned recommendation has a non-empty allActions, in the order
\* SWITCH_TO_ONDEMAND, RIGHT_SIZE, REMOVE_GSI, ADD_DAX; primaryAction is an
\* element of it with the largest estimatedSavings, and the first such element.
C5_PrimaryAction ==
    Returned("generateRecommendations") =>
        \A r \in 1 .. Len(call.ret) :
            LET acts == call.ret[r].allActions
            IN  /\ Len(acts) > 0
                /\ \A i, j \in 1 .. Len(acts) :
                      i < j => PlaceOfType(acts[i].type) < PlaceOfType(acts[j].type)
                /\ \E p \in 1 .. Len(acts) :
                      /\ call.ret[r].primaryAction = acts[p]
                      /\ \A i \in 1 .. Len(acts) :
                            acts[i].estimatedSavings <= acts[p].estimatedSavings
                      /\ \A i \in 1 .. p - 1 :
                            acts[i].estimatedSavings < acts[p].estimatedSavings

\* SWITCH_TO_ONDEMAND and REMOVE_GSI both save 50, the largest amount, and the
\* primary action is SWITCH_TO_ONDEMAND, the first of the two.
C5_Witness ==
    /\ Returned("generateRecommendations")
    /\ \E r \in 1 .. Len(call.ret) :
          /\ Len(call.ret[r].allActions) = 2
          /\ call.ret[r].allActions[1].type = "SWITCH_TO_ONDEMAND"
          /\ call.ret[r].allActions[2].type = "REMOVE_GSI"
          /\ call.ret[r].allActions[1].estimatedSavings = 50
          /\ call.ret[r].allActions[2].estimatedSavings = 50
          /\ call.ret[r].primaryAction.type = "SWITCH_TO_ONDEMAND"

\* The condition of some rule holds for the table.
Triggers(t) ==
    \/ t.capacityMode = "PROVISIONED" /\ t.trafficPattern = "SPIKY"
    \/ t.capacityMode = "PROVISIONED" /\ t.utilizationPercent < 30
    \/ Len(t.unusedGSIs) > 0
    \/ t.consumedRCU > 5000 /\ t.trafficPattern = "STEADY"

\* The place of tables[i] once the tables are ordered by savingsPotential
\* descending, ties in input order.
RankBySavings(tables, i) ==
    1 + Cardinality({j \in 1 .. Len(tables) :
                        \/ tables[j].savingsPotential > tables[i].savingsPotential
                        \/ /\ tables[j].savingsPotential = tables[i].savingsPotential
                           /\ j < i})

\* The places in tables of the tables that are among the first limit by
\* savingsPotential and trigger an action.
SelectedPlaces(tables, limit) ==
    {i \in 1 .. Len(tables) : RankBySavings(tables, i) <= limit /\ Triggers(tables[i])}

\* C6: for limit >= 0 the recommendations are exactly the tables that trigger
\* an action among the first limit tables by savingsPotential descending (ties
\* in input order), in that order, so totalSavings never increases along them.
C6_SelectionAndOrder ==
    (Returned("generateRecommendations") /\ call.limit >= 0) =>
        LET sel == SelectedPlaces(call.tables, call.limit)
        IN  /\ Len(call.ret) = Cardinality(sel)
            /\ \A r \in 1 .. Len(call.ret) :
                  /\ call.ret[r].tableId \in sel
                  /\ call.ret[r].totalSavings
                        = call.tables[call.ret[r].tableId].savingsPotential
                  /\ Cardinality({j \in sel :
                         RankBySavings(call.tables, j)
                            < RankBySavings(call.tables, call.ret[r].tableId)}) = r - 1
            /\ \A r \in 1 .. Len(call.ret) - 1 :
                  call.ret[r].totalSavings >= call.ret[r + 1].totalSavings

\* Three tables with equal savingsPotential and a limit of 2: the first two
\* come back in input order, the third is cut, and the primary action of the
\* first saves less than that of the second.
C6_Witness ==
    /\ Returned("generateRecommendations")
    /\ call.limit = 2
    /\ Len(call.tables) = 3
    /\ \A i \in 1 .. 3 : call.tables[i].savingsPotential = 100 /\ Triggers(call.tables[i])
    /\ Len(call.ret) = 2
    /\ call.ret[1].tableId = 1
    /\ call.ret[2].tableId = 2
    /\ call.ret[1].primaryAction.estimatedSavings
          < call.ret[2].primaryAction.estimatedSavings

\* s is Math.round(n / d) when n / d is exact: the nearest integer, the larger
\* one at a half.
RoundsHalfUp(s, n, d) == 2 * s * d - d <= 2 * n /\ 2 * n < 2 * s * d + d

ActionsOfType(rec, type) ==
    {i \in 1 .. Len(rec.allActions) : rec.allActions[i].type = type}

\* The rule named type fires for the recommendation iff cond, once, with the
\* priority given.
RuleFires(rec, type, cond, priority) ==
    /\ Cardinality(ActionsOfType(rec, type)) = (IF cond THEN 1 ELSE 0)
    /\ \A i \in ActionsOfType(rec, type) : rec.allActions[i].priority = priority

IsScenarioTable(t) ==
    /\ t.capacityMode = "PROVISIONED"
    /\ t.trafficPattern = "SPIKY"
    /\ t.utilizationPercent = 10
    /\ Len(t.unusedGSIs) = 1
    /\ t.consumedRCU <= 5000
    /\ t.monthlySpend = 1000

ScenarioOutcome(rec) ==
    /\ Len(rec.allActions) = 3
    /\ rec.allActions[1].type = "SWITCH_TO_ONDEMAND"
    /\ rec.allActions[1].estimatedSavings = 400
    /\ rec.allActions[2].type = "RIGHT_SIZE"
    /\ rec.allActions[2].estimatedSavings = 450
    /\ rec.allActions[2].priority = "HIGH"
    /\ rec.allActions[3].type = "REMOVE_GSI"
    /\ rec.allActions[3].estimatedSavings = 50
    /\ rec.primaryAction.type = "RIGHT_SIZE"

\* C7: in every recommendation each rule fires iff its own condition holds, with
\* the savings and the priority of the rule: SWITCH_TO_ONDEMAND iff PROVISIONED
\* and SPIKY (round(0.4 spend), HIGH); RIGHT_SIZE iff PROVISIONED and utilization
\* < 30 (the integer nearest to spend * (1 - utilization / 100) * 0.5, HIGH below
\* 15 else MEDIUM); REMOVE_GSI iff an unused GSI (50 each, HIGH from 2 on else
\* MEDIUM); ADD_DAX iff consumedRCU > 5000 and STEADY (round(0.25 spend), LOW);
\* an examined table without a recommendation meets no condition; the scenario
\* table yields 400, 450 HIGH and 50 with RIGHT_SIZE as primary action.
C7_ActionRules ==
    Returned("generateRecommendations") =>
        /\ \A r \in 1 .. Len(call.ret) :
              LET rec == call.ret[r]
                  t == call.tables[rec.tableId]
                  prov == t.capacityMode = "PROVISIONED"
                  n == Len(t.unusedGSIs)
              IN  /\ RuleFires(rec, "SWITCH_TO_ONDEMAND",
                               prov /\ t.trafficPattern = "SPIKY", "HIGH")
                  /\ RuleFires(rec, "RIGHT_SIZE", prov /\ t.utilizationPercent < 30,
                               IF t.utilizationPercent < 15 THEN "HIGH" ELSE "MEDIUM")
                  /\ RuleFires(rec, "REMOVE_GSI", n > 0,
                               IF n >= 2 THEN "HIGH" ELSE "MEDIUM")
                  /\ RuleFires(rec, "ADD_DAX",
                               t.consumedRCU > 5000 /\ t.trafficPattern = "STEADY", "LOW")
                  /\ \A i \in 1 .. Len(rec.allActions) :
                        LET a == rec.allActions[i]
                        IN  /\ a.type \in {ActionOrder[k] : k \in 1 .. 4}
                            /\ a.type = "SWITCH_TO_ONDEMAND" =>
                                  RoundsHalfUp(a.estimatedSavings, 4 * t.monthlySpend, 10)
                            /\ a.type = "RIGHT_SIZE" =>
                                  NearestTo(a.estimatedSavings,
                                            t.monthlySpend * (100 - t.utilizationPercent),
                                            200)
                            /\ a.type = "REMOVE_GSI" => a.estimatedSavings = 50 * n
                            /\ a.type = "ADD_DAX" =>
                                  RoundsHalfUp(a.estimatedSavings, t.monthlySpend, 4)
                  /\ IsScenarioTable(t) => ScenarioOutcome(rec)
        /\ call.limit >= Len(call.tables) =>
              \A i \in 1 .. Len(call.tables) :
                  (\A r \in 1 .. Len(call.ret) : call.ret[r].tableId # i)
                     => ~Triggers(call.tables[i])

\* The scenario table was examined and its three actions came back.
C7_Witness ==
    /\ Returned("generateRecommendations")
    /\ \E r \in 1 .. Len(call.ret) :
          /\ IsScenarioTable(call.tables[call.ret[r].tableId])
          /\ ScenarioOutcome(call.ret[r])

\* C8: fleetData is at all times as generateFleetData returned it, sorted by
\* wasteScore descending; a step that changes it is a profile selection, which
\* replaces it by a newly generated fleet and restarts the conversation;
\* sorting the view, the memos and the chat leave it as it is.
C8_FleetDataFrame ==
    /\ [](NonIncreasingBy(fleetData, "wasteScore"))
    /\ [][/\ fleetData' # fleetData =>
                /\ \E run \in PageRuns :
                      run.profileId = activeProfile' /\ run.data = fleetData'
                /\ messages' = <<greeting(activeProfile', fleetData')>>
          /\ (sortConfig' # sortConfig \/ chatInput' # chatInput \/ pending' # pending
                \/ (messages' # messages /\ Len(messages') >= 2))
                => fleetData' = fleetData]_vars

\* A fleet is on the page with its memos computed, the view is sorted by
\* another column than the fleet is, and a chat message has been answered.
C8_Witness ==
    /\ activeProfile # NoProfile
    /\ Len(fleetData) > 0
    /\ stats # NoStats
    /\ Len(recommendations) > 0
    /\ sortConfig.key = "monthlySpend"
    /\ sortedData(TRUE) # fleetData
    /\ Len(messages) >= 3
    /\ messages[3].role = "assistant"
    /\ NonIncreasingBy(fleetData, "wasteScore")

DigitPlace(c) == CHOOSE k \in 1 .. Len(DigitChars) : DigitChars[k] = c

\* The number a string of decimal digits denotes.
RECURSIVE DigitsValue(_)
DigitsValue(text) ==
    IF text = <<>> THEN 0
    ELSE 10 * DigitsValue(SubSeq(text, 1, Len(text) - 1)) + DigitPlace(text[Len(text)]) - 1

IsDigits(text) ==
    /\ Len(text) > 0
    /\ \A i \in 1 .. Len(text) : \E k \in 1 .. Len(DigitChars) : DigitChars[k] = text[i]
    /\ Len(text) > 1 => text[1] # "0"

\* C9: getWasteCategory returns critical iff score >= 0.7, warning iff
\* 0.4 <= score < 0.7, good iff score < 0.4; 0.75, 0.5 and 0.1 give critical,
\* warning and good; and the label is critical exactly when calculateFleetStats
\* counts the table in criticalTables.
C9_WasteCategory ==
    Returned("getWasteCategory") =>
        /\ call.ret \in {"critical", "warning", "good"}
        /\ call.ret = "critical" <=> call.arg >= 70
        /\ call.ret = "warning" <=> (40 <= call.arg /\ call.arg < 70)
        /\ call.ret = "good" <=> call.arg < 40
        /\ call.arg = 75 => call.ret = "critical"
        /\ call.arg = 50 => call.ret = "warning"
        /\ call.arg = 10 => call.ret = "good"
        /\ call.counted = (IF call.ret = "critical" THEN 1 ELSE 0)

\* A score of exactly 0.7 is labelled critical and counted.
C9_Witness ==
    /\ Returned("getWasteCategory")
    /\ call.arg = 70
    /\ call.ret = "critical"
    /\ call.counted = 1

\* C10: for a non-negative integer amount formatCurrency returns "$" and the
\* decimal digits of the amount when amount < 1000, and "$", amount / 1000 to
\* one decimal digit (a nearest number of tenths) and "k" when amount >= 1000;
\* 1500 gives "$1.5k" and 42 gives "$42".
C10_FormatCurrency ==
    Returned("formatCurrency") =>
        LET text == call.ret
            n == Len(text)
        IN  /\ n >= 2
            /\ text[1] = "$"
            /\ call.arg < 1000 =>
                  /\ IsDigits(Tail(text))
                  /\ DigitsValue(Tail(text)) = call.arg
            /\ call.arg >= 1000 =>
                  /\ n >= 5
                  /\ text[n] = "k"
                  /\ text[n - 2] = "."
                  /\ IsDigits(SubSeq(text, 2, n - 3))
                  /\ IsDigits(<<text[n - 1]>>)
                  /\ NearestTo(10 * DigitsValue(SubSeq(text, 2, n - 3))
                                  + DigitsValue(<<text[n - 1]>>),
                               call.arg, 100)
            /\ call.arg = 1500 => text = <<"$", "1", ".", "5", "k">>
            /\ call.arg = 1000 => text = <<"$", "1", ".", "0", "k">>
            /\ call.arg = 42 => text = <<"$", "4", "2">>

\* formatCurrency(1500) returned "$1.5k".
C10_Witness ==
    /\ Returned("formatCurrency")
    /\ call.arg = 1500
    /\ call.ret = <<"$", "1", ".", "5", "k">>

C12_SendCompletes ==
    /\ isLoading ~> (~isLoading /\ pending = <<>>)
    /\ [][/\ Len(pending') > Len(pending) => isLoading'
          /\ Len(pending') < Len(pending) =>
                /\ ~isLoading'
                /\ Len(messages') = Len(messages) + 1
                /\ SubSeq(messages', 1, Len(messages)) = messages
                /\ messages'[Len(messages')].role = "assistant"
                /\ messages'[Len(messages')].content
                      = (IF pending[1].outcome.kind = "resolved"
                         THEN pending[1].outcome.reply ELSE FallbackText)
          /\ pending' = pending => (Len(messages') <= Len(messages) \/ messages = <<>>)
         ]_vars

\* A send whose fetch or parsing failed has completed: its user message is
\* followed by the fallback text and nothing is loading.
C12_Witness ==
    /\ ~isLoading
    /\ pending = <<>>
    /\ Len(messages) = 3
    /\ messages[2].role = "user"
    /\ messages[3] = [role |-> "assistant", content |-> FallbackText]

UserMessageAppended ==
    /\ Len(messages') = Len(messages) + 1
    /\ SubSeq(messages', 1, Len(messages)) = messages
    /\ messages'[Len(messages')].role = "user"

\* C13: at most one request is in flight, and one is in flight exactly while
\* isLoading; while isLoading no step sends a request or appends a user message;
\* a request is sent exactly in the step that appends a user message, it carries
\* that message, and a request that settles, with or without failure, is never
\* sent again.
C13_OneRequestInFlight ==
    /\ [](Len(pending) <= 1 /\ (isLoading <=> pending # <<>>))
    /\ [][/\ isLoading => (Len(pending') <= Len(pending) /\ ~UserMessageAppended)
          /\ (Len(pending') > Len(pending)) <=> UserMessageAppended
          /\ Len(pending') > Len(pending) =>
                /\ pending' = Append(pending, pending'[Len(pending')])
                /\ pending'[Len(pending')].message = messages'[Len(messages')].content
                /\ pending'[Len(pending')].outcome = Unsettled
                /\ Trim(chatInput) # <<>>
                /\ chatInput' = <<>>
          /\ (pending # <<>> /\ pending' # <<>>) => pending'[1].message = pending[1].message
         ]_vars

\* A request is in flight and text is waiting in the chat box: a further send
\* returns at once.
C13_Witness ==
    /\ isLoading
    /\ Len(pending) = 1
    /\ pending[1].outcome.kind = "rejected"
    /\ Trim(chatInput) # <<>>
    /\ messages[Len(messages)].role = "user"

\* The request is one for which some statement of the try block throws before
\* create is called.
ThrowsBeforeCreate ==
    \/ call.body.kind \in {"unparseable", "null"}
    \/ /\ call.body.context.kind = "object"
       /\ \/ call.body.context.top.kind = "number"
          \/ \E i \in 1 .. Len(call.body.context.top.items) :
                call.body.context.top.items[i].kind = "null"
    \/ call.openaiClient = "null: constructor throws"

IsNonEmptyString(text) == \E i \in 1 .. Len(text) : text[i] # ""

\* C14: POST always returns a response: from every position short of the return
\* it can go on; the response carries a non-empty reply; create is called at
\* most once, and not at all when an exception precedes it; the status is 500
\* with the fixed error text exactly when an exception was raised (unparseable
\* or null body, a context whose topRecommendations cannot be mapped, a client
\* that cannot be constructed, a rejected create, a completion without
\* choices), and 200 otherwise, with the fallback text for an empty completion.
C14_PostAlwaysReplies ==
    call.fn = "POST" =>
        /\ call.created <= 1
        /\ call.pc # "returned" => ENABLED RouteNext
        /\ call.pc = "create" => (call.created = 1 /\ ~ThrowsBeforeCreate)
        /\ call.pc = "returned" =>
              LET raised == \/ ThrowsBeforeCreate
                            \/ call.completion.kind \in {"rejected", "no choices property"}
              IN  /\ IsNonEmptyString(call.reply)
                  /\ call.status = (IF raised THEN 500 ELSE 200)
                  /\ raised => call.reply = ErrorReply
                  /\ ThrowsBeforeCreate <=> call.created = 0
                  /\ (~raised /\ call.completion.choices # <<>>
                        /\ call.completion.choices[1].content # <<>>)
                        => call.reply = call.completion.choices[1].content

\* The upstream call was made once and came back without choices: the reply is
\* the fallback text, with status 200.
C14_Witness ==
    /\ call.fn = "POST"
    /\ call.pc = "returned"
    /\ call.created = 1
    /\ call.completion = [kind |-> "completion", choices |-> <<>>]
    /\ call.status = 200
    /\ call.reply = NoContentReply
    /\ call.body.context.kind = "object"

TableReturned == call.fn = "generateTable" /\ call.ret # <<>>

\* The utilization bands of a profile type, in per cent.
UtilizationBands(profileType) ==
    CASE profileType = "ecommerce" -> (5 .. 30) \cup (40 .. 90)
      [] profileType = "gaming" -> (70 .. 95) \cup (10 .. 40)
      [] profileType = "financial" -> 15 .. 50
      [] OTHER -> 20 .. 80

\* C15 as stated: utilizationPercent lies in the bands of the profile type, and
\* consumedRCU is the floor of the exact product of the provisionedRCU draw and
\* utilizationPercent / 100, consumedWCU likewise.
C15_UtilizationAndConsumed_AsStated ==
    TableReturned =>
        LET t == call.ret[1]
        IN  /\ t.utilizationPercent \in UtilizationBands(call.profileType)
            /\ t.consumedRCU = (provisionedRCUOf(call.d) * t.utilizationPercent) \div 100
            /\ t.consumedWCU = (provisionedWCUOf(call.d) * t.utilizationPercent) \div 100

\* consumed is the floor of the exact product p * u / 100, or, where that
\* product is an integer, possibly one less.
FloorOrJustBelow(consumed, p, u) ==
    \/ consumed = (p * u) \div 100
    \/ (p * u) % 100 = 0 /\ consumed = (p * u) \div 100 - 1

\* C15, amended: utilizationPercent lies in the bands of the profile type, and
\* consumedRCU is the floor of the product of the provisionedRCU draw and
\* utilizationPercent / 100 as the doubles give it: the floor of the exact
\* product, except that where the exact product is an integer it can be one
\* less; consumedWCU likewise.
C15_UtilizationAndConsumed ==
    TableReturned =>
        LET t == call.ret[1]
        IN  /\ t.utilizationPercent \in UtilizationBands(call.profileType)
            /\ FloorOrJustBelow(t.consumedRCU, provisionedRCUOf(call.d), t.utilizationPercent)
            /\ FloorOrJustBelow(t.consumedWCU, provisionedWCUOf(call.d), t.utilizationPercent)

\* An ON_DEMAND e-commerce table of the low band whose capacity draw times the
\* factor has a fraction, consumed being its floor.
C15_Witness ==
    /\ TableReturned
    /\ call.profileType = "ecommerce"
    /\ call.ret[1].capacityMode = "ON_DEMAND"
    /\ call.ret[1].utilizationPercent = 18
    /\ provisionedRCUOf(call.d) = 218
    /\ call.ret[1].consumedRCU = 39

\* wasteScore * 1000 before rounding, from the fields of the table.
WasteThousandths(t) ==
    LET capacityWaste == IF t.capacityMode = "PROVISIONED" THEN 100 - t.utilizationPercent
                         ELSE 0
        modeWaste == IF t.capacityMode = "PROVISIONED" /\ t.trafficPattern = "SPIKY"
                     THEN 200 ELSE 0
    IN  Min(1000, 6 * capacityWaste + 150 * Len(t.unusedGSIs) + modeWaste)

\* C16: the wasteScore of a generated table is min(1, 0.6 * capacityWaste +
\* 0.15 * unusedGSIs.length + modeWaste) rounded to two decimals, capacityWaste
\* being 1 - utilizationPercent / 100 for a PROVISIONED table and 0 otherwise,
\* modeWaste 0.2 for a PROVISIONED SPIKY table and 0 otherwise.
C16_WasteScore ==
    TableReturned =>
        /\ NearestTo(call.ret[1].wasteScore, WasteThousandths(call.ret[1]), 10)
        /\ WasteThousandths(call.ret[1]) % 10 # 5

\* A PROVISIONED, SPIKY table at 95 per cent with one unused GSI:
\* 0.6 * 0.05 + 0.15 + 0.2 = 0.38.
C16_Witness ==
    /\ TableReturned
    /\ call.ret[1].capacityMode = "PROVISIONED"
    /\ call.ret[1].trafficPattern = "SPIKY"
    /\ call.ret[1].utilizationPercent = 95
    /\ Len(call.ret[1].unusedGSIs) = 1
    /\ call.ret[1].wasteScore = 38

\* C17: once a profile is selected, messages starts with the greeting of the
\* active profile and its fleet, and from there on alternates user message,
\* assistant message; it ends with a user message only while a request is in
\* flight.  The claim includes the selection of a profile during a request.
C17_GreetingThenAlternation ==
    activeProfile # NoProfile =>
        /\ messages # <<>>
        /\ messages[1] = greeting(activeProfile, fleetData)
        /\ \A i \in 2 .. Len(messages) :
              messages[i].role = (IF i % 2 = 0 THEN "user" ELSE "assistant")
        /\ Len(messages) % 2 = 0 => (isLoading /\ pending # <<>>)

FleetAnalysed == call.fn = "generateFleetData" /\ call.derived # <<>>

\* C18: every recommendation made from a generated fleet has totalSavings at
\* least the estimatedSavings of its primary action.
C18_TotalCoversPrimary ==
    FleetAnalysed =>
        \A i \in 1 .. Len(call.derived[1].recommendations) :
            LET rec == call.derived[1].recommendations[i]
            IN  rec.totalSavings >= rec.primaryAction.estimatedSavings

\* C19: every table generateTable returns has monthlySpend >= 1, so every fleet
\* generateFleetData returns has totalMonthlySpend > 0, and calculateFleetStats
\* on it returns a savingsPercentage and an avgUtilization that are integers
\* (neither NaN nor Infinity).
C19_SpendPositiveStatsFinite ==
    /\ TableReturned => call.ret[1].monthlySpend >= 1
    /\ (call.fn = "generateFleetData" /\ call.ret # <<>>) =>
          \A i \in 1 .. Len(call.ret) : call.ret[i].monthlySpend >= 1
    /\ FleetAnalysed =>
          /\ call.derived[1].stats # NoStats
          /\ LET st == call.derived[1].stats[1]
             IN  /\ st.totalMonthlySpend > 0
                 /\ st.totalMonthlySpend >= st.totalTables
                 /\ st.savingsPercentage \notin {NaN, Infinity}
                 /\ st.savingsPercentage >= 0
                 /\ st.avgUtilization \notin {NaN, Infinity}
                 /\ st.avgUtilization \in 0 .. 100

\* The gaming fleet of the cheapest tables the repeating stream makes
\* (ON_DEMAND, 25 and 12 consumed units, 56 a month each), with its stats.
C19_Witness ==
    /\ FleetAnalysed
    /\ call.profileType = "gaming"
    /\ \A i \in 1 .. Len(call.ret) :
          call.ret[i].capacityMode = "ON_DEMAND" /\ call.ret[i].monthlySpend = 56
    /\ call.derived[1].stats[1].totalMonthlySpend = 56 * 45
    /\ call.derived[1].stats[1].savingsPercentage = 0
    /\ call.derived[1].stats[1].avgUtilization = 25

====
